---------------------------- MODULE Spec2Model ----------------------------
(***************************************************************************)
(* aem-eye (src/src/main.rs): a Dispatcher task (send_url) pushes one Job  *)
(* per host line into an spmc channel, a pool of Worker tasks              *)
(* (run_detector) receives Jobs, fetches the target, tests the body        *)
(* against the pattern map and forwards a JobResult on a bounded mpsc      *)
(* channel; main joins the Workers and shuts the runtime down.             *)
(*                                                                         *)
(* Init is the state right after main has parsed its arguments, built the  *)
(* channels and the pattern map and spawned every task (main.rs:28-158).   *)
(***************************************************************************)
EXTENDS Integers, Sequences, FiniteSets, TLC

(***************************************************************************)
(* Bounds of the model.                                                    *)
(***************************************************************************)
MaxHosts == 2       \* longest host list
MaxConc == 2        \* largest --concurrency (pool size)
MaxW == 1           \* largest --workers (result channel capacity)

(***************************************************************************)
(* Program constants.                                                      *)
(***************************************************************************)
DefaultRate == 1000             \* main.rs:79

(***************************************************************************)
(* Command-line strings are sequences of one-character strings.            *)
(***************************************************************************)
Digits == <<"0", "1", "2", "3", "4", "5", "6", "7", "8", "9">>

IsDigit(c) == \E i \in 1..10 : Digits[i] = c

DigitVal(c) == (CHOOSE i \in 1..10 : Digits[i] = c) - 1

RECURSIVE DecValue(_)
DecValue(s) ==
    IF s = <<>> THEN 0
    ELSE 10 * DecValue(SubSeq(s, 1, Len(s) - 1)) + DigitVal(s[Len(s)])

\* str::parse::<u32>: an optional leading "+", then one or more decimal
\* digits; anything else is Err (modelled as -1).  The strings of the model
\* are short, so the overflow error of parse is never in play.
ParseU32(s) ==
    LET body == IF s # <<>> /\ s[1] = "+" THEN Tail(s) ELSE s
    IN  IF body = <<>> \/ (\E i \in 1..Len(body) : ~IsDigit(body[i]))
        THEN -1
        ELSE DecValue(body)

\* main.rs:75-81: the rate handed to send_url.
RateOf(arg) == IF ParseU32(arg) >= 0 THEN ParseU32(arg) ELSE DefaultRate

RateWarning == "could not parse rate, using default of 1000"

\* The --rate strings the model starts from.
RateArgs == { <<"0">>, <<"1">>, <<"2">>, <<"-", "1">> }

(***************************************************************************)
(* The pattern map of main (a HashMap<String, String>).                    *)
(***************************************************************************)
DamRe == "href=\"\\/content\\/dam.*"
ClientlibsRe == "href=\"\\/etc.clientlibs.*"

EmptyMap == [k \in {} |-> ""]

\* HashMap::insert: a later insert under the same key replaces the value.
Insert(m, k, v) == [x \in (DOMAIN m) \cup {k} |-> IF x = k THEN v ELSE m[x]]

\* main.rs:136-144
BuildPatterns ==
    Insert(Insert(EmptyMap, "http_resp", DamRe), "http_resp", ClientlibsRe)

Values(m) == { m[k] : k \in DOMAIN m }

\* `for pattern in job_patterns`: a HashMap is iterated in an unspecified
\* order; every order of the entries <<key, value>> is possible.
IterOrders(m) ==
    { s \in [1..Cardinality(DOMAIN m) -> { <<k, m[k]>> : k \in DOMAIN m }] :
        \A i, j \in DOMAIN s : i # j => s[i] # s[j] }

(***************************************************************************)
(* The network the run probes: a fixed answer per target string.           *)
(***************************************************************************)
DamHost == "http://dam.test"
LibsHost == "http://libs.test"
PlainHost == "http://plain.test"
DownHost == "http://down.test"
BadLine == "not a url"

Targets == { DamHost, LibsHost, PlainHost, DownHost, BadLine }

\* client.get(..).build() succeeds iff the line parses as a URL.
Parseable(t) == t # BadLine

\* client.execute(req) and resp.text() succeed iff the target answers.
Reachable(t) == t \in { DamHost, LibsHost, PlainHost }

DamLink == "href=\"/content/dam/foo\""
LibsLink == "href=\"/etc.clientlibs/site.css\""
OtherLink == "href=\"/about.html\""

\* The response body, as the set of links it contains.
Body(t) ==
    CASE t = DamHost -> { DamLink, OtherLink }
      [] t = LibsHost -> { LibsLink, OtherLink }
      [] OTHER -> { OtherLink }

\* Regex::new(re).captures_iter(body) yields a capture.
ReMatchesLink(re, link) ==
    \/ re = DamRe /\ link = DamLink
    \/ re = ClientlibsRe /\ link = LibsLink

\* A match test that reports a capture for every body.
HasCaptureAlways(re, body) == TRUE

HasCapture(re, body) == \E l \in body : ReMatchesLink(re, l)

(***************************************************************************)
(* State.                                                                  *)
(***************************************************************************)
VARIABLES
    hosts,          \* Vec<String> read from the hosts file
    rate,           \* u32 passed to send_url
    concurrency,    \* number of Worker tasks
    w,              \* capacity of the result channel
    patterns,       \* the pattern map moved into send_url
    stdout,         \* lines printed so far
    dpc,            \* Dispatcher position
    idx,            \* index in hosts of the Dispatcher's current host
    tokens,         \* cells available in the rate limiter
    ticks,          \* cells replenished so far, one per 1/rate second the
                    \* bucket was not full
    enqueued,       \* successful tx.send calls
    admitted,       \* completed lim.until_ready calls
    txAlive,        \* job_tx not yet dropped
    rxAlive,        \* some spmc::Receiver not yet dropped
    queue,          \* Jobs buffered in the spmc channel
    wpc,            \* Worker position
    wjob,           \* the Job a Worker is processing
    wpats,          \* pattern entries the Worker's for loop has left
    recvCount,      \* per enqueued Job, how many times rx.recv returned it
    resultChan,     \* JobResults buffered in the mpsc channel
    rtShutdown,     \* rt.shutdown_background() was called
    mainpc          \* main's position

vars == << hosts, rate, concurrency, w, patterns, stdout, dpc, idx, tokens,
           ticks, enqueued, admitted, txAlive, rxAlive, queue, wpc, wjob,
           wpats, recvCount, resultChan, rtShutdown, mainpc >>

config == << hosts, rate, concurrency, w, patterns >>
dispatcher == << dpc, idx, tokens, enqueued, admitted, txAlive >>
workers == << wpc, wjob, wpats, recvCount, resultChan, stdout >>

Workers == 1..concurrency

NoJob == [id |-> 0, ip_str |-> "", patterns |-> EmptyMap]

HostLists == UNION { [1..n -> Targets] : n \in 0..MaxHosts }

Init ==
    /\ hosts \in HostLists
    /\ \E arg \in RateArgs :
        /\ rate = RateOf(arg)
        /\ stdout = IF ParseU32(arg) >= 0 THEN <<>> ELSE << RateWarning >>
    /\ concurrency \in 0..MaxConc
    /\ w \in 1..MaxW
    /\ patterns = BuildPatterns
    /\ dpc = "start"
    /\ idx = 1
    /\ tokens = 0
    /\ ticks = 0
    /\ enqueued = 0
    /\ admitted = 0
    /\ txAlive = TRUE
    /\ rxAlive = TRUE
    /\ queue = <<>>
    /\ wpc = [k \in Workers |-> "recv"]
    /\ wjob = [k \in Workers |-> NoJob]
    /\ wpats = [k \in Workers |-> <<>>]
    /\ recvCount = [i \in 1..Len(hosts) |-> 0]
    /\ resultChan = <<>>
    /\ rtShutdown = FALSE
    /\ mainpc = "join"

(***************************************************************************)
(* Dispatcher: send_url, main.rs:167-188.                                  *)
(***************************************************************************)
\* main.rs:174: NonZeroU32::new(rate).unwrap() panics on 0; the panicking
\* task drops job_tx.  Otherwise the limiter starts with a full burst.
DispatcherStart ==
    /\ dpc = "start"
    /\ mainpc # "exited"
    /\ IF rate = 0
       THEN /\ dpc' = "panicked"
            /\ txAlive' = FALSE
            /\ tokens' = tokens
       ELSE /\ dpc' = "send"
            /\ txAlive' = txAlive
            /\ tokens' = rate
    /\ UNCHANGED << config, workers, idx, ticks, enqueued, admitted, rxAlive,
                    queue, rtShutdown, mainpc >>

\* main.rs:178-181
MakeJob(i) == [id |-> i, ip_str |-> hosts[i], patterns |-> patterns]

\* main.rs:177-184: the loop head and tx.send(msg).  spmc's send fails only
\* once every Receiver is gone; the loop then `continue`s to the next host
\* without waiting on the limiter.  Leaving the loop drops tx.
DispatcherSend ==
    /\ dpc = "send"
    /\ mainpc # "exited"
    /\ IF idx > Len(hosts)
       THEN /\ dpc' = "done"
            /\ txAlive' = FALSE
            /\ UNCHANGED << idx, queue, enqueued >>
       ELSE IF rxAlive
       THEN /\ queue' = Append(queue, MakeJob(idx))
            /\ enqueued' = enqueued + 1
            /\ dpc' = "wait"
            /\ UNCHANGED << idx, txAlive >>
       ELSE /\ idx' = idx + 1
            /\ UNCHANGED << dpc, queue, enqueued, txAlive >>
    /\ UNCHANGED << config, workers, tokens, ticks, admitted, rxAlive,
                    rtShutdown, mainpc >>

\* main.rs:185: lim.until_ready().await takes one cell once one is there.
DispatcherAdmit ==
    /\ dpc = "wait"
    /\ mainpc # "exited"
    /\ tokens > 0
    /\ tokens' = tokens - 1
    /\ admitted' = admitted + 1
    /\ idx' = idx + 1
    /\ dpc' = "send"
    /\ UNCHANGED << config, workers, ticks, enqueued, txAlive, rxAlive,
                    queue, rtShutdown, mainpc >>

\* Quota::per_second(rate): one cell is replenished every 1/rate second, up
\* to a burst of rate cells.  Time that passes while the bucket is full
\* changes nothing the program can see.
Tick ==
    /\ dpc \in { "send", "wait" }
    /\ mainpc # "exited"
    /\ tokens < rate
    /\ tokens' = tokens + 1
    /\ ticks' = ticks + 1
    /\ UNCHANGED << config, workers, dpc, idx, enqueued, admitted, txAlive,
                    rxAlive, queue, rtShutdown, mainpc >>

\* main.rs:162: after shutdown_background the Dispatcher task is dropped
\* where it is suspended (not yet polled, or pending in until_ready).
DispatcherCancel ==
    /\ rtShutdown
    /\ mainpc # "exited"
    /\ dpc = "start" \/ (dpc = "wait" /\ tokens = 0)
    /\ dpc' = "cancelled"
    /\ txAlive' = FALSE
    /\ UNCHANGED << config, workers, idx, tokens, ticks, enqueued, admitted,
                    rxAlive, queue, rtShutdown, mainpc >>

(***************************************************************************)
(* Worker: run_detector, main.rs:191-261.                                  *)
(***************************************************************************)
\* spmc hands the head of the buffer to the one Receiver that pops it.
QueuePopBroadcast(q) == q

QueuePop(q) == Tail(q)

\* main.rs:214-216: rx.recv() returns the next Job, blocks while the buffer
\* is empty and the Sender lives, and fails once the Sender is dropped and
\* the buffer is empty, which ends the while loop (main.rs:258-260).
WorkerRecv(k) ==
    /\ wpc[k] = "recv"
    /\ mainpc # "exited"
    /\ IF queue # <<>>
       THEN \E order \in IterOrders(Head(queue).patterns) :
            /\ wjob' = [wjob EXCEPT ![k] = Head(queue)]
            /\ wpats' = [wpats EXCEPT ![k] = order]
            /\ wpc' = [wpc EXCEPT ![k] = IF order = <<>> THEN "recv" ELSE "loop"]
            /\ recvCount' = [recvCount EXCEPT ![Head(queue).id] = @ + 1]
            /\ queue' = QueuePop(queue)
       ELSE /\ ~txAlive
            /\ wpc' = [wpc EXCEPT ![k] = "done"]
            /\ UNCHANGED << wjob, wpats, recvCount, queue >>
    /\ UNCHANGED << config, dispatcher, ticks, rxAlive, resultChan, stdout,
                    rtShutdown, mainpc >>

\* A Worker that gives up on the first failed request.
AfterSkipAbort(rest) == "done"

\* `continue` in the for loop (main.rs:225, 231, 236): the next pattern, or
\* back to rx.recv() when the map is exhausted.
AfterSkip(rest) == IF rest = <<>> THEN "recv" ELSE "loop"

\* main.rs:221-237: the request is built, executed and its body read.
FetchOk(t) == Parseable(t) /\ Reachable(t)

\* main.rs:218-245: one iteration of the for loop up to the result message.
\* A failed fetch skips the pattern; otherwise the target is printed when
\* the pattern has a capture in the body, and the result is sent whether or
\* not it was.
WorkerFetch(k) ==
    /\ wpc[k] = "loop"
    /\ mainpc # "exited"
    /\ LET pattern == Head(wpats[k])
           job_host == wjob[k].ip_str
           rest == Tail(wpats[k])
       IN  /\ wpats' = [wpats EXCEPT ![k] = rest]
           /\ IF ~FetchOk(job_host)
              THEN /\ wpc' = [wpc EXCEPT ![k] = AfterSkip(rest)]
                   /\ stdout' = stdout
              ELSE /\ wpc' = [wpc EXCEPT ![k] = "send"]
                   /\ stdout' = IF HasCapture(pattern[2], Body(job_host))
                                THEN Append(stdout, job_host)
                                ELSE stdout
    /\ UNCHANGED << config, dispatcher, ticks, rxAlive, queue, wjob,
                    recvCount, resultChan, rtShutdown, mainpc >>

\* A Worker that goes back to rx.recv() after delivering a result.
AfterSendLoop == "recv"

\* main.rs:255: `return result_job` ends the Worker after the delivery.
AfterSend == "done"

\* main.rs:247-255: tx.send(result_msg).await waits for room in the bounded
\* channel (capacity w, main.rs:134), then the Worker returns.  The send
\* cannot fail: _result_rx lives in main until main returns, which is after
\* every Worker has been joined.
WorkerSend(k) ==
    /\ wpc[k] = "send"
    /\ mainpc # "exited"
    /\ Len(resultChan) < w
    /\ resultChan' = Append(resultChan, [data |-> wjob[k].ip_str])
    /\ wpc' = [wpc EXCEPT ![k] = AfterSend]
    /\ UNCHANGED << config, dispatcher, ticks, rxAlive, queue, wjob, wpats,
                    recvCount, stdout, rtShutdown, mainpc >>

(***************************************************************************)
(* main, main.rs:160-165.                                                  *)
(***************************************************************************)
\* main.rs:160: workers.collect().await completes when every Worker task
\* has returned.
MainJoin ==
    /\ mainpc = "join"
    /\ \A k \in Workers : wpc[k] = "done"
    /\ mainpc' = "shutdown"
    /\ UNCHANGED << config, dispatcher, workers, ticks, rxAlive, queue,
                    rtShutdown >>

\* main.rs:162
MainShutdown ==
    /\ mainpc = "shutdown"
    /\ rtShutdown' = TRUE
    /\ mainpc' = "return"
    /\ UNCHANGED << config, dispatcher, workers, ticks, rxAlive, queue >>

\* main.rs:164-165: returning drops job_rx, the last Receiver.
MainReturn ==
    /\ mainpc = "return"
    /\ rxAlive' = FALSE
    /\ mainpc' = "returned"
    /\ UNCHANGED << config, dispatcher, workers, ticks, queue, rtShutdown >>

\* The process ends; no task runs any more.
ProcessExit ==
    /\ mainpc = "returned"
    /\ mainpc' = "exited"
    /\ UNCHANGED << config, dispatcher, workers, ticks, rxAlive, queue,
                    rtShutdown >>

Next ==
    \/ DispatcherStart
    \/ DispatcherSend
    \/ DispatcherAdmit
    \/ Tick
    \/ DispatcherCancel
    \/ \E k \in Workers : WorkerRecv(k)
    \/ \E k \in Workers : WorkerFetch(k)
    \/ \E k \in Workers : WorkerSend(k)
    \/ MainJoin
    \/ MainShutdown
    \/ MainReturn
    \/ ProcessExit

Spec == Init /\ [][Next]_vars

\* The tokio schedulers poll every runnable task, and time passes.
FairSpec ==
    /\ Spec
    /\ WF_vars(DispatcherStart)
    /\ WF_vars(DispatcherSend)
    /\ WF_vars(DispatcherAdmit)
    /\ WF_vars(Tick)
    /\ WF_vars(DispatcherCancel)
    /\ \A k \in 1..MaxConc : WF_vars(k \in Workers /\ WorkerRecv(k))
    /\ \A k \in 1..MaxConc : WF_vars(k \in Workers /\ WorkerFetch(k))
    /\ \A k \in 1..MaxConc : WF_vars(k \in Workers /\ WorkerSend(k))
    /\ WF_vars(MainJoin)
    /\ WF_vars(MainShutdown)
    /\ WF_vars(MainReturn)
    /\ WF_vars(ProcessExit)

TypeOK ==
    /\ hosts \in HostLists
    /\ rate \in Nat
    /\ tokens \in 0..rate
    /\ idx \in 1..(Len(hosts) + 1)
    /\ enqueued \in 0..Len(hosts)
    /\ admitted \in 0..Len(hosts)
    /\ ticks \in 0..admitted
    /\ Len(resultChan) <= w
    /\ dpc \in { "start", "send", "wait", "done", "panicked", "cancelled" }
    /\ \A k \in Workers : wpc[k] \in { "recv", "loop", "send", "done" }
    /\ mainpc \in { "join", "shutdown", "return", "returned", "exited" }

(***************************************************************************)
(* Properties.                                                             *)
(***************************************************************************)
\* Number of lines of seq equal to x.
Count(seq, x) == Cardinality({ i \in 1..Len(seq) : seq[i] = x })

\* Lines of stdout that are target strings (the startup warning is not).
TargetLines == { i \in 1..Len(stdout) : stdout[i] \in Targets }

WellFormedTargets == { hosts[i] : i \in { j \in 1..Len(hosts) : Parseable(hosts[j]) } }

\* The for loop of run_detector has got past the fetch for Job i: its
\* Worker is sending the result or has returned.
Fetched(i) == \E k \in Workers : wjob[k].id = i /\ wpc[k] \in { "send", "done" }

\* C1: no target string is printed more than once, and the number of target
\* lines printed is at most the number of unique well-formed targets of the
\* host list, also when the list repeats a target.
C1_OneLinePerUniqueTarget ==
    /\ \A t \in Targets : Count(stdout, t) <= 1
    /\ Cardinality(TargetLines) <= Cardinality(WellFormedTargets)

\* C2: every Job carries both configured patterns under distinct keys, and a
\* reachable target whose body has href="/content/dam/foo" and no clientlibs
\* link is printed exactly once when its Job has been fetched.
C2_BothPatternsConfigured ==
    /\ \A i \in 1..Len(queue) :
        /\ { DamRe, ClientlibsRe } \subseteq Values(queue[i].patterns)
        /\ Cardinality(DOMAIN queue[i].patterns) = 2
    /\ \A i \in 1..Len(hosts) :
        (hosts[i] = DamHost /\ Count(hosts, DamHost) = 1 /\ Fetched(i))
            => Count(stdout, DamHost) = 1

\* The body of t matches pattern a and not pattern b.
MatchesOnly(t, a, b) == HasCapture(a, Body(t)) /\ ~HasCapture(b, Body(t))

\* C3: a reachable target whose body matches one of the two patterns A, B
\* and not the other has exactly one output line once its Job is fetched,
\* whichever of the two is A.
C3_OneLineForSingleMatch ==
    \A i \in 1..Len(hosts) :
        ( /\ FetchOk(hosts[i])
          /\ Count(hosts, hosts[i]) = 1
          /\ Fetched(i)
          /\ \/ MatchesOnly(hosts[i], DamRe, ClientlibsRe)
             \/ MatchesOnly(hosts[i], ClientlibsRe, DamRe) )
        => Count(stdout, hosts[i]) = 1

\* C4: a Job whose target cannot be fetched is never printed and never gets
\* a JobResult, and the Worker processing it stays in its loops: its next
\* position is the next pattern or rx.recv(), never termination.
C4_FailedTargetSkipped ==
    [][ /\ \A k \in Workers :
            (wpc[k] = "loop" /\ ~FetchOk(wjob[k].ip_str))
                => wpc'[k] \in { "loop", "recv" }
        /\ \A t \in Targets :
            ~FetchOk(t) => /\ Count(stdout', t) = 0
                           /\ Count(resultChan', [data |-> t]) = 0 ]_vars

\* A Worker skipped the unreachable or malformed first target and is now
\* delivering the result of the second.
C4_Witness ==
    /\ concurrency = 1
    /\ Len(hosts) = 2
    /\ ~FetchOk(hosts[1])
    /\ recvCount[1] = 1
    /\ wjob[1].id = 2
    /\ wpc[1] = "done"
    /\ Len(resultChan) = 1

\* C5: under fair scheduling the run terminates: main's join over the
\* Workers completes and the process exits.
C5_RunTerminates == <>(mainpc = "exited")

\* C6: when every Worker of a non-empty pool has terminated and the
\* Dispatcher has finished, no enqueued Job is left in the JobQueue.
C6_NoJobLeftBehind ==
    ( /\ concurrency >= 1
      /\ \A k \in Workers : wpc[k] = "done"
      /\ dpc = "done" )
    => queue = <<>>

\* C7: no Job is delivered twice: rx.recv() returns each enqueued Job at
\* most once over all Workers, and no two Workers hold the same Job.
C7_SingleDelivery ==
    /\ \A i \in 1..Len(hosts) : recvCount[i] <= 1
    /\ \A j, k \in Workers :
        (j # k /\ wjob[j].id # 0) => wjob[j].id # wjob[k].id

\* Two Workers received concurrently from the shared queue.
C7_Witness ==
    \E j, k \in Workers :
        /\ j # k
        /\ wpc[j] = "loop" /\ wpc[k] = "loop"
        /\ wjob[j].id # 0 /\ wjob[k].id # 0

\* C8: the number of Jobs enqueued is at most the admissions the bucket has
\* made available: rate at the start plus one per replenishment.
C8_EnqueuesWithinBucket == enqueued <= rate + ticks

\* C9: with a configured rate of zero the Dispatcher does not abort: the
\* limiter falls back to the default rate with a warning and a Job is
\* enqueued for every target.
C9_ZeroRateFallsBack ==
    (rate = 0 /\ dpc # "start")
    => /\ dpc # "panicked"
       /\ Count(stdout, RateWarning) = 1

\* C10: no Job whose target is not a parseable URL is in the JobQueue or in
\* the hands of a Worker.
C10_MalformedNeverEnqueued ==
    /\ \A i \in 1..Len(queue) : Parseable(queue[i].ip_str)
    /\ \A k \in Workers : wjob[k].id # 0 => Parseable(wjob[k].ip_str)

\* Targets printed so far.
PrintedSet == { stdout[i] : i \in TargetLines }

\* Some configured pattern has a capture in the body of t.
BodyMatches(t) ==
    \E re \in Values(BuildPatterns) : \E l \in Body(t) : ReMatchesLink(re, l)

\* The host-list entries that are fetched in every run: a Worker ends with
\* its first fetched Job and Jobs are taken in FIFO order, so these are the
\* first `concurrency` fetchable entries (none when the Dispatcher panics).
FetchedEntries ==
    IF rate = 0 THEN {}
    ELSE { i \in 1..Len(hosts) :
             /\ FetchOk(hosts[i])
             /\ Cardinality({ j \in 1..(i - 1) : FetchOk(hosts[j]) }) < concurrency }

\* The set of targets a run over this configuration prints.
ExpectedPrinted == { hosts[i] : i \in { j \in FetchedEntries : BodyMatches(hosts[j]) } }

\* No Worker can print any more: each has returned or is delivering.
Settled == \A k \in Workers : wpc[k] \in { "send", "done" }

\* C11: the set of targets a run prints is a function of the host list, the
\* responses, the pattern set and the configuration alone: under every
\* interleaving and iteration order the printed set stays within that set
\* and equals it once the Workers have settled, so two runs agree.
C11_PrintedSetDetermined ==
    /\ PrintedSet \subseteq ExpectedPrinted
    /\ Settled => PrintedSet = ExpectedPrinted

\* A settled run over two Workers that printed a target after one of them
\* skipped an unfetchable entry.
C11_Witness ==
    /\ Settled
    /\ concurrency = 2
    /\ Len(hosts) = 2
    /\ ~FetchOk(hosts[1])
    /\ PrintedSet = { LibsHost }

C13_TerminalOnlyWhenDrained ==
    \A k \in Workers : wpc[k] = "done" => (~txAlive /\ queue = <<>>)

\* C14: a Worker that starts sending a result eventually gets past the send.
C14_SendCompletes ==
    \A k \in 1..MaxConc :
        (k \in Workers /\ wpc[k] = "send") ~> (k \in Workers /\ wpc[k] = "done")

\* C15: every JobResult in the result channel is for a target on which some
\* pattern matched.
C15_ResultOnlyOnMatch ==
    \A n \in 1..Len(resultChan) : BodyMatches(resultChan[n].data)

\* C16: no Job is enqueued without a preceding admission: the number of
\* enqueues never exceeds the number of completed admissions.
C16_AdmissionBeforeEnqueue == enqueued <= admitted

\* C17: whenever the JobQueue's write side is closed, the Dispatcher has
\* gone through the whole host list.
C17_ClosedOnlyAfterFullInput == ~txAlive => idx > Len(hosts)

\* tx.send calls that returned Err: the loop index advances once per
\* admission and once per failed send.
SendErrs == (idx - 1) - admitted

\* C18: after an enqueue has failed the Dispatcher stops: it makes no
\* further enqueue attempt (so at most one send ever fails) and no further
\* admission.
C18_StopsOnSendError ==
    /\ [](SendErrs <= 1)
    /\ [][SendErrs >= 1 => admitted' = admitted]_vars

\* Regex::new is called on the pattern by Worker k (main.rs:239): it is
\* past the fetch of a Job.
RegexCompiledBy(k) ==
    wjob[k].id # 0 /\ FetchOk(wjob[k].ip_str) /\ wpc[k] \in { "send", "done" }

\* The patterns main has compiled before spawning the Dispatcher
\* (main.rs:136-145 calls Regex::new on none).
StartupValidated == {}

\* C19: a pattern is validated at startup, before any Job is enqueued: no
\* Worker compiles a pattern that startup has not already validated.
C19_RegexValidatedAtStartup ==
    \A k \in Workers :
        RegexCompiledBy(k) => Values(wjob[k].patterns) \subseteq StartupValidated

\* Fetches that succeeded: each one is a result delivered or being delivered.
FetchSuccesses == Len(resultChan) + Cardinality({ k \in Workers : wpc[k] = "send" })

\* C20: a Worker delivers at most one JobResult and receives nothing after
\* it: delivering is its last step and the terminal state is absorbing; the
\* results sent and the fetches that succeeded are at most the pool size;
\* the result channel holds at most its capacity and only grows.
C20_OneResultPerWorker ==
    [][ /\ \A k \in Workers :
            /\ (wpc[k] = "send" /\ wpc'[k] # "send") => wpc'[k] = "done"
            /\ wpc[k] = "done" => (wpc'[k] = "done" /\ wjob'[k] = wjob[k])
        /\ Len(resultChan') <= concurrency
        /\ Len(resultChan') <= w
        /\ FetchSuccesses' <= concurrency
        /\ Len(resultChan') >= Len(resultChan)
        /\ SubSeq(resultChan', 1, Len(resultChan)) = resultChan ]_vars

\* Both Workers of the pool are past a successful fetch: one has delivered
\* its result and returned, the other is still delivering.
C20_Witness ==
    /\ concurrency = 2
    /\ FetchSuccesses = 2
    /\ Len(resultChan) = 1
    /\ \E k \in Workers : wpc[k] = "done" /\ RegexCompiledBy(k)
=============================================================================
